---- MODULE Spec2Model ----
(***************************************************************************)
(* Model of the file upload Lambda of src/index.js: one invocation of      *)
(* `upload`, the multipart decoder's notifications, the fan-out of         *)
(* uploadFileIntoS3 over the parsed files and the S3 backend's completions.*)
(* One action is one turn of the JavaScript event loop: the callback that  *)
(* the event starts together with every promise continuation it unblocks.  *)
(***************************************************************************)
EXTENDS Integers, Sequences, FiniteSets, TLC

\* ------------------------------------------------------------------ bounds
\* Largest number of file parts the decoder delivers in one request.
MaxFiles == 3

\* ------------------------------------------------------------------ values
\* The content types of getFileExtension's table (index.js 97-114).
SupportedTypes ==
    {"image/jpeg", "image/png", "text/html", "text/css",
     "application/javascript", "application/json"}

\* Values of headers["content-type"] the requests carry: the table's, values
\* outside the table (two of them near a table entry), and "undefined" for a
\* headers mapping without the entry.
ContentTypes ==
    SupportedTypes \cup {"application/pdf", "image/jpg", "IMAGE/JPEG", "undefined"}

\* A file of the decoder's result: file["headers"] is null/undefined
\* (hasHeaders = FALSE) or a mapping whose "content-type" entry is contentType.
Files ==
    {[hasHeaders |-> TRUE, contentType |-> c] : c \in ContentTypes}
    \cup {[hasHeaders |-> FALSE, contentType |-> "undefined"]}

\* The files of the requests with several parts: two types of the table, one
\* outside it, and a file without headers.
SampleFiles ==
    {[hasHeaders |-> TRUE, contentType |-> c] :
        c \in {"image/jpeg", "application/json", "application/pdf"}}
    \cup {[hasHeaders |-> FALSE, contentType |-> "undefined"]}

\* The sequences of files the decoder delivers: every file alone, and every
\* sequence of up to MaxFiles sample files.
FileSeqs == [1..1 -> Files] \cup UNION {[1..n -> SampleFiles] : n \in 0..MaxFiles}

\* The decoder's result: result.files is null/undefined or a sequence.
Results ==
    {[null |-> FALSE, files |-> fs] : fs \in FileSeqs}
    \cup {[null |-> TRUE, files |-> <<>>]}

\* An error value; `of` is the index of the file whose storeOne raised it
\* (0 for the decoder's error), so that error objects keep their identity.
NoError == [kind |-> "none", of |-> 0]
ParseError == [kind |-> "ParseError", of |-> 0]
MissingHeaders(i) == [kind |-> "MissingHeaders", of |-> i]
UnsupportedContentType(i) == [kind |-> "UnsupportedContentType", of |-> i]
BackendError(i) == [kind |-> "BackendError", of |-> i]
ReferenceError(i) == [kind |-> "ReferenceError", of |-> i]

\* ------------------------------------------------------------------ state
VARIABLES
    parsePromise,   \* the promise of parseMultipartFormData: pending/resolved/rejected
    finishFired,    \* the decoder has emitted "finish"
    errorFired,     \* the decoder has emitted "error"
    firstSignal,    \* which of the two the decoder emitted first, "none" while neither
    parsed,         \* the value parsePromise resolved with (a member of Results)
    task,           \* task[i]: the promise of files.map's i-th async callback
    taskError,      \* taskError[i]: the error task[i] rejected with
    firstFailed,    \* index of the task that rejected first in time, 0 while none
    puts,           \* the s3.upload requests issued, in issue order
    nextUuid,       \* number of identifiers uuidv4 has handed out
    bucket,         \* keys of the objects the backend holds
    allPromise,     \* the promise of Promise.all: idle/pending/fulfilled/rejected
    statusCode,     \* statusCode of the returned response, 0 while none
    thrown,         \* the error the handler's promise rejected with
    errLog          \* the errors console.error has printed

vars == <<parsePromise, finishFired, errorFired, firstSignal, parsed, task, taskError,
          firstFailed, puts, nextUuid, bucket, allPromise, statusCode, thrown,
          errLog>>

\* ------------------------------------------------------------------ helpers
\* The table of getFileExtension (index.js 96-116): the extension of a
\* content type, or the error thrown for a value the table lacks.
ExtensionOf(contentType) ==
    CASE contentType = "image/jpeg" -> [ok |-> TRUE, ext |-> "jpg", err |-> ""]
      [] contentType = "image/png" -> [ok |-> TRUE, ext |-> "png", err |-> ""]
      [] contentType = "text/html" -> [ok |-> TRUE, ext |-> "html", err |-> ""]
      [] contentType = "text/css" -> [ok |-> TRUE, ext |-> "css", err |-> ""]
      [] contentType = "application/javascript" ->
           [ok |-> TRUE, ext |-> "javascript", err |-> ""]
      [] contentType = "application/json" -> [ok |-> TRUE, ext |-> "json", err |-> ""]
      [] OTHER -> [ok |-> FALSE, ext |-> "", err |-> "UnsupportedContentType"]

\* getFileExtension with a generic extension for the types the table lacks.
getFileExtension_Fallback(file) ==
    IF ~file.hasHeaders
    THEN [ok |-> FALSE, ext |-> "", err |-> "MissingHeaders"]
    ELSE IF ExtensionOf(file.contentType).ok THEN ExtensionOf(file.contentType)
    ELSE [ok |-> TRUE, ext |-> "bin", err |-> ""]

\* getFileExtension without the test of the headers mapping.
getFileExtension_NoHeaderCheck(file) == ExtensionOf(file.contentType)

\* getFileExtension (index.js 90-117): the extension of a file, or the error
\* it throws.
getFileExtension(file) ==
    IF ~file.hasHeaders
    THEN [ok |-> FALSE, ext |-> "", err |-> "MissingHeaders"]
    ELSE ExtensionOf(file.contentType)

\* The error object getFileExtension throws for the i-th file.
ExtensionError(i, r) ==
    IF r.err = "MissingHeaders" THEN MissingHeaders(i) ELSE UnsupportedContentType(i)

\* uuidv4() (index.js 67): a fresh identifier, the n-th one handed out.
uuidv4(n) == n + 1

\* Key with one identifier shared by every key.
Key_SharedUuid(uuid, ext) == [uuid |-> 1, dot |-> ".", ext |-> ext]

\* Key: `${uuidv4()}.${ext}` (index.js 67): identifier, ".", extension.
Key(uuid, ext) == [uuid |-> uuid, dot |-> ".", ext |-> ext]

\* The test of index.js 16 without its length part.
NoFiles_NullOnly(result) == result.null

\* files == null || files.length == 0 (index.js 16).
NoFiles(result) == result.null \/ Len(result.files) = 0

\* The identifier `fileName` of the success log line (index.js 74) is declared
\* nowhere in the module: evaluating the template literal throws.
fileNameInScope == FALSE

\* A promise that a later resolve or reject settles again.
Settle_Overwrite(current, new) == new

\* A promise settles once: a resolve or reject on a settled promise is ignored.
Settle(current, new) == IF current = "pending" THEN new ELSE current

\* ------------------------------------------------------------------ dispatch
\* The part of uploadFileIntoS3 that runs before its first await (index.js
\* 63-72) for the i-th file: derive the extension, build the key, issue the
\* upload. d carries task, taskError, puts, nextUuid and the indices of the
\* tasks rejected so far in this turn, in the order they rejected.
StartUpload(d, i, file) ==
    LET r == getFileExtension(file) IN
    IF r.ok
    THEN [d EXCEPT !.task = Append(@, "pending"),
                   !.taskError = Append(@, NoError),
                   !.puts = Append(@, [of |-> i,
                                       key |-> Key(uuidv4(d.nextUuid), r.ext),
                                       status |-> "inflight"]),
                   !.nextUuid = @ + 1]
    ELSE [d EXCEPT !.task = Append(@, "rejected"),
                   !.taskError = Append(@, ExtensionError(i, r)),
                   !.rejected = Append(@, i)]

\* files.map(async (file) => { await uploadFileIntoS3(file); }) (index.js
\* 23-25): the callbacks start in sequence order, each running up to its await.
RECURSIVE MapFiles(_, _, _)
\* The files taken one after the other, stopping at the first that fails.
MapFiles_StopAtFailure(d, fs, i) ==
    IF i > Len(fs) \/ d.rejected # <<>> THEN d
    ELSE MapFiles(StartUpload(d, i, fs[i]), fs, i + 1)

\* The files taken one at a time: only the first upload is started at once.
MapFiles_OneAtATime(d, fs, i) ==
    IF i > 1 THEN d ELSE MapFiles(StartUpload(d, i, fs[i]), fs, i + 1)

MapFiles(d, fs, i) ==
    IF i > Len(fs) THEN d ELSE MapFiles(StartUpload(d, i, fs[i]), fs, i + 1)

\* The task that rejected first in time, given the one recorded so far and
\* the tasks rejecting in this turn, in order.
FirstFailed(first, fo) ==
    IF first # 0 \/ fo = <<>> THEN first ELSE fo[1]

\* An aggregate that settles only once no task is pending.
PromiseAll_WaitAll(current, tk, fo) ==
    IF current # "pending" THEN current
    ELSE IF \E i \in 1..Len(tk) : tk[i] = "pending" THEN "pending"
    ELSE IF \E i \in 1..Len(tk) : tk[i] = "rejected" THEN "rejected"
    ELSE "fulfilled"

\* An aggregate that only counts fulfilments and never rejects.
PromiseAll_IgnoresRejection(current, tk, fo) ==
    IF current # "pending" THEN current
    ELSE IF \A i \in 1..Len(tk) : tk[i] = "fulfilled" THEN "fulfilled"
    ELSE "pending"

\* An aggregate that does not wait for the tasks still pending.
PromiseAll_NoWait(current, tk, fo) ==
    IF current # "pending" THEN current
    ELSE IF fo # <<>> THEN "rejected"
    ELSE "fulfilled"

\* Promise.all over the tasks (index.js 22), given the tasks rejecting in this
\* turn in order: rejected as soon as one task has rejected, fulfilled once
\* every task has fulfilled, settled once.
PromiseAll(current, tk, fo) ==
    IF current # "pending" THEN current
    ELSE IF fo # <<>> THEN "rejected"
    ELSE IF \A i \in 1..Len(tk) : tk[i] = "fulfilled" THEN "fulfilled"
    ELSE "pending"

\* The reason Promise.all rejects with: that of the task that rejected first.
AllReason(te, fo) == te[Head(fo)]

\* The rest of upload after `await Promise.all(...)` (index.js 22-30): the
\* response once the aggregate has fulfilled, the rethrown reason once it has
\* rejected.
AwaitAll(all, te, fo) ==
    /\ statusCode' = IF all = "fulfilled" /\ allPromise' # allPromise THEN 201 ELSE statusCode
    /\ thrown' = IF all = "rejected" /\ allPromise' # allPromise
                 THEN AllReason(te, fo) ELSE thrown

\* A failed upload issued once more.
SettlePut_Retry(ps, p, ok) ==
    IF ok \/ Len(ps) >= 2 * MaxFiles
    THEN [ps EXCEPT ![p].status = IF ok THEN "stored" ELSE "failed"]
    ELSE Append([ps EXCEPT ![p].status = "failed"],
                [of |-> ps[p].of, key |-> ps[p].key, status |-> "inflight"])

\* The upload request ps[p] once the backend has answered it (index.js 72-79):
\* s3.upload is awaited once and its failure rethrown; nothing is issued again.
SettlePut(ps, p, ok) ==
    [ps EXCEPT ![p].status = IF ok THEN "stored" ELSE "failed"]

\* A failed write answered by deleting what the batch has stored.
PutObject_Rollback(b, key, ok) == IF ok THEN b \cup {key} ELSE {}

\* The bucket once the backend has answered the upload of key (index.js 72):
\* a successful write adds the object; nothing in the module removes one.
PutObject(b, key, ok) == IF ok THEN b \cup {key} ELSE b

\* ------------------------------------------------------------------ actions
Init ==
    /\ parsePromise = "pending"
    /\ finishFired = FALSE
    /\ errorFired = FALSE
    /\ firstSignal = "none"
    /\ parsed = [null |-> TRUE, files |-> <<>>]
    /\ task = <<>>
    /\ taskError = <<>>
    /\ firstFailed = 0
    /\ puts = <<>>
    /\ nextUuid = 0
    /\ bucket = {}
    /\ allPromise = "idle"
    /\ statusCode = 0
    /\ thrown = NoError
    /\ errLog = {}

\* upload from the resolution of parseMultipartFormData on (index.js 14-31),
\* up to the point where it returns or waits for the backend.
Upload(result) ==
    IF NoFiles(result)
    THEN /\ statusCode' = 200
         /\ UNCHANGED <<task, taskError, firstFailed, puts, nextUuid, allPromise, thrown>>
    ELSE LET d == MapFiles([task |-> <<>>, taskError |-> <<>>, rejected |-> <<>>,
                            puts |-> puts, nextUuid |-> nextUuid],
                           result.files, 1)
         IN /\ task' = d.task
            /\ taskError' = d.taskError
            /\ firstFailed' = FirstFailed(firstFailed, d.rejected)
            /\ puts' = d.puts
            /\ nextUuid' = d.nextUuid
            /\ allPromise' = PromiseAll("pending", d.task, d.rejected)
            /\ AwaitAll(allPromise', d.taskError, d.rejected)

\* The decoder emits "finish" (index.js 43-45): resolve, and, when that settles
\* the promise, upload continues with the fields and files.
DecoderFinish(result) ==
    /\ ~finishFired
    /\ finishFired' = TRUE
    /\ firstSignal' = IF firstSignal = "none" THEN "finish" ELSE firstSignal
    /\ parsePromise' = Settle(parsePromise, "resolved")
    /\ IF parsePromise' = "resolved"
       THEN /\ parsed' = result
            /\ Upload(result)
       ELSE UNCHANGED <<parsed, task, taskError, firstFailed, puts, nextUuid,
                        allPromise, statusCode, thrown>>
    /\ UNCHANGED <<errorFired, bucket, errLog>>

\* The decoder emits "error" (index.js 47-49): reject, and, when that settles
\* the promise, the await of index.js 14 rethrows it out of upload.
DecoderError ==
    /\ ~errorFired
    /\ errorFired' = TRUE
    /\ firstSignal' = IF firstSignal = "none" THEN "error" ELSE firstSignal
    /\ parsePromise' = Settle(parsePromise, "rejected")
    /\ thrown' = IF parsePromise' = "rejected" THEN ParseError ELSE thrown
    /\ UNCHANGED <<finishFired, parsed, task, taskError, firstFailed, puts,
                   nextUuid, bucket, allPromise, statusCode, errLog>>

\* The backend settles the p-th upload (index.js 72-79). On success the object
\* exists and the log line of 73-75 runs inside the try block; whatever is
\* thrown there or by the upload is caught, printed and rethrown, rejecting
\* the file's task. Promise.all and upload then continue.
BackendComplete(p, ok) ==
    /\ p \in 1..Len(puts)
    /\ puts[p].status = "inflight"
    /\ LET i == puts[p].of
           raised == IF ~ok THEN BackendError(i)
                     ELSE IF ~fileNameInScope THEN ReferenceError(i)
                     ELSE NoError
           tk == [task EXCEPT ![i] = IF raised = NoError THEN "fulfilled" ELSE "rejected"]
           te == [taskError EXCEPT ![i] = raised]
           fo == IF raised = NoError THEN <<>> ELSE <<i>>
       IN /\ puts' = SettlePut(puts, p, ok)
          /\ bucket' = PutObject(bucket, puts[p].key, ok)
          /\ errLog' = IF raised = NoError THEN errLog ELSE errLog \cup {raised}
          /\ task' = tk
          /\ taskError' = te
          /\ firstFailed' = FirstFailed(firstFailed, fo)
          /\ allPromise' = PromiseAll(allPromise, tk, fo)
          /\ AwaitAll(allPromise', te, fo)
    /\ UNCHANGED <<parsePromise, finishFired, errorFired, firstSignal, parsed, nextUuid>>

Next ==
    \/ \E result \in Results : DecoderFinish(result)
    \/ DecoderError
    \/ \E p \in 1..Len(puts), ok \in BOOLEAN : BackendComplete(p, ok)

Spec == Init /\ [][Next]_vars

\* The decoder's first notification: "finish" or "error" (index.js 43-49).
DecoderSignals ==
    /\ firstSignal = "none"
    /\ \/ \E result \in Results : DecoderFinish(result)
       \/ DecoderError

\* The invocation under a decoder that eventually emits "finish" or "error"
\* and a backend that eventually answers every upload issued to it
\* (index.js 14 and 72 wait for exactly these).
FairSpec ==
    /\ Spec
    /\ WF_vars(DecoderSignals)
    /\ \A p \in 1..MaxFiles : WF_vars(\E ok \in BOOLEAN : BackendComplete(p, ok))

\* ------------------------------------------------------------------ properties
\* Vocabulary of the properties.
ParseSucceeded == parsePromise = "resolved"
NumFiles == Len(parsed.files)
WellFormed(f) == f.hasHeaders /\ f.contentType \in SupportedTypes
Unsupported(f) == f.hasHeaders /\ f.contentType \notin SupportedTypes
AllWellFormed == \A i \in 1..NumFiles : WellFormed(parsed.files[i])
Finished == statusCode # 0 \/ thrown # NoError
NoneInFlight == \A p \in 1..Len(puts) : puts[p].status # "inflight"

\* The extension table as the specification states it.
TableExt ==
    [c \in SupportedTypes |->
        CASE c = "image/jpeg" -> "jpg"
          [] c = "image/png" -> "png"
          [] c = "text/html" -> "html"
          [] c = "text/css" -> "css"
          [] c = "application/javascript" -> "javascript"
          [] c = "application/json" -> "json"]

\* The first file in sequence order that lacks headers or a supported type, and
\* the error its storeOne raises.
FirstMalformed ==
    CHOOSE i \in 1..NumFiles :
        /\ ~WellFormed(parsed.files[i])
        /\ \A j \in 1..(i - 1) : WellFormed(parsed.files[j])
ErrorOfFirstMalformed ==
    IF parsed.files[FirstMalformed].hasHeaders
    THEN UnsupportedContentType(FirstMalformed)
    ELSE MissingHeaders(FirstMalformed)

\* C1: when the parse succeeds with no files (files null or empty), the
\* response is statusCode 200 and no store operation is issued at any time of
\* the invocation.
C1_NoFilesNoStore ==
    (ParseSucceeded /\ (parsed.null \/ NumFiles = 0)) =>
        /\ statusCode = 200
        /\ thrown = NoError
        /\ puts = <<>>
        /\ bucket = {}

C1_Witness ==
    /\ ParseSucceeded
    /\ ~parsed.null
    /\ NumFiles = 0
    /\ statusCode = 200

\* C2: when the parse yields one or more files, all with headers and a
\* supported content type, and every backend write has succeeded, the response
\* is statusCode 201 and no storeOne has raised an error.
C2_AllStoredGives201 ==
    (/\ ParseSucceeded
     /\ NumFiles >= 1
     /\ AllWellFormed
     /\ Len(puts) = NumFiles
     /\ \A p \in 1..Len(puts) : puts[p].status = "stored") =>
        /\ statusCode = 201
        /\ \A i \in 1..NumFiles : task[i] = "fulfilled"

\* C3: when the parse yields N >= 1 files, all with a supported content type,
\* exactly N store operations are issued, one per file, under pairwise distinct
\* keys, each ending in "." and the extension the table gives the file's type.
C3_OneStorePerFile ==
    (ParseSucceeded /\ NumFiles >= 1 /\ AllWellFormed) =>
        /\ Len(puts) = NumFiles
        /\ \A i \in 1..NumFiles : \E p \in 1..Len(puts) :
              /\ puts[p].of = i
              /\ puts[p].key.dot = "."
              /\ puts[p].key.ext = TableExt[parsed.files[i].contentType]
        /\ \A p, q \in 1..Len(puts) : p # q => puts[p].key # puts[q].key

C3_Witness ==
    /\ ParseSucceeded
    /\ NumFiles = 3
    /\ AllWellFormed
    /\ parsed.files[1] = parsed.files[3]
    /\ parsed.files[1] # parsed.files[2]
    /\ Len(puts) = 3

\* C4, as claimed: when some file has a content type outside the table, the
\* invocation fails with the unsupported-content-type error and responds with
\* neither 200 nor 201.
C4_FailsWithUnsupported ==
    (ParseSucceeded /\ \E i \in 1..NumFiles : Unsupported(parsed.files[i])) =>
        /\ thrown.kind = "UnsupportedContentType"
        /\ statusCode = 0

\* C4, amended: when some file has a content type outside the table, the
\* invocation fails, responds with neither 200 nor 201, and the error is that
\* of the first file in sequence order that lacks headers or a supported type.
C4_FailsWithFirstMalformed ==
    (ParseSucceeded /\ \E i \in 1..NumFiles : Unsupported(parsed.files[i])) =>
        /\ thrown = ErrorOfFirstMalformed
        /\ statusCode = 0

C4_Witness ==
    /\ ParseSucceeded
    /\ NumFiles = 3
    /\ WellFormed(parsed.files[1])
    /\ Unsupported(parsed.files[2])
    /\ WellFormed(parsed.files[3])
    /\ Len(puts) = 2
    /\ \A p \in 1..Len(puts) : puts[p].status = "stored"
    /\ thrown = UnsupportedContentType(2)

\* C5, as claimed: when some file has no headers mapping, the invocation fails
\* with the missing-headers error and responds with neither 200 nor 201.
C5_FailsWithMissingHeaders ==
    (ParseSucceeded /\ \E i \in 1..NumFiles : ~parsed.files[i].hasHeaders) =>
        /\ thrown.kind = "MissingHeaders"
        /\ statusCode = 0

\* C5, amended: when some file has no headers mapping, the invocation fails,
\* responds with neither 200 nor 201, and the error is that of the first file
\* in sequence order that lacks headers or a supported type.
C5_FailsWithFirstMalformed ==
    (ParseSucceeded /\ \E i \in 1..NumFiles : ~parsed.files[i].hasHeaders) =>
        /\ thrown = ErrorOfFirstMalformed
        /\ statusCode = 0

C5_Witness ==
    /\ ParseSucceeded
    /\ NumFiles = 3
    /\ WellFormed(parsed.files[1])
    /\ WellFormed(parsed.files[2])
    /\ ~parsed.files[3].hasHeaders
    /\ \E p \in 1..Len(puts) : puts[p].status = "failed"
    /\ thrown = MissingHeaders(3)

\* C6: when the decoder reports an error before any finish, the invocation
\* fails with the parse error, no store operation is issued at any time, and
\* the response is neither 200 nor 201.
C6_ParseErrorNoStore ==
    firstSignal = "error" =>
        /\ thrown = ParseError
        /\ statusCode = 0
        /\ puts = <<>>
        /\ bucket = {}

C6_Witness ==
    /\ firstSignal = "error"
    /\ finishFired
    /\ thrown = ParseError

\* C7, as claimed: once the invocation and all of its stores have finished
\* after a successful parse, the number of store operations issued equals the
\* number of files parsed, whatever their headers and content types.
C7_StoresEqualFiles ==
    (ParseSucceeded /\ Finished /\ NoneInFlight) => Len(puts) = NumFiles

\* C7, amended: once the invocation and all of its stores have finished after
\* a successful parse, the number of store operations issued equals the number
\* of parsed files that have headers and a supported content type.
C7_StoresEqualWellFormedFiles ==
    (ParseSucceeded /\ Finished /\ NoneInFlight) =>
        Len(puts) = Cardinality({i \in 1..NumFiles : WellFormed(parsed.files[i])})

C7_Witness ==
    /\ ParseSucceeded
    /\ Finished
    /\ NoneInFlight
    /\ NumFiles = 3
    /\ Len(puts) = 2
    /\ ~WellFormed(parsed.files[1])

\* C8: in every state at most one store operation has been issued for any
\* file: nothing is issued again after a backend failure or another error.
C8_AtMostOneStorePerFile ==
    \A p, q \in 1..Len(puts) : puts[p].of = puts[q].of => p = q

C8_Witness ==
    /\ Len(puts) >= 2
    /\ NoneInFlight
    /\ \E p \in 1..Len(puts) : puts[p].status = "failed"
    /\ thrown.kind = "BackendError"

\* C10: once a storeOne has failed, the aggregate and the invocation have
\* failed with the error of the storeOne that failed first in time, whatever
\* the other stores do; and the error of a failed backend write is printed and
\* is the error its storeOne fails with.
C10_FirstFailureSurfaces ==
    /\ firstFailed # 0 =>
          /\ allPromise = "rejected"
          /\ statusCode = 0
          /\ thrown = taskError[firstFailed]
          /\ thrown # NoError
    /\ \A p \in 1..Len(puts) : puts[p].status = "failed" =>
          /\ task[puts[p].of] = "rejected"
          /\ taskError[puts[p].of] = BackendError(puts[p].of)
          /\ BackendError(puts[p].of) \in errLog

C10_Witness ==
    /\ NumFiles = 3
    /\ Len(puts) = 3
    /\ firstFailed = 2
    /\ thrown = BackendError(2)
    /\ puts[1].status = "stored"
    /\ puts[3].status = "inflight"

\* C11: no step deletes or overwrites a stored object, so the objects of the
\* stores that succeeded stay in the bucket after the batch has failed; and a
\* store in flight is never cancelled: whatever the invocation's outcome, its
\* successful completion remains possible.
C11_NoRollbackNoCancel ==
    [][/\ bucket \subseteq bucket'
       /\ \A p \in 1..Len(puts) :
             puts[p].status = "inflight" => ENABLED BackendComplete(p, TRUE)
       /\ \A p \in 1..Len(puts) :
             puts[p].status = "stored" => puts[p].key \in bucket']_vars

C11_Witness ==
    /\ ParseSucceeded
    /\ NumFiles = 3
    /\ firstFailed = 2
    /\ thrown = MissingHeaders(2)
    /\ Len(puts) = 2
    /\ puts[1].status = "failed"
    /\ puts[2].status = "stored"
    /\ puts[2].key \in bucket

\* What the first notification of the decoder has decided.
SettledByFirstSignal ==
    /\ firstSignal = "none" => parsePromise = "pending"
    /\ firstSignal = "finish" => parsePromise = "resolved" /\ thrown # ParseError
    /\ firstSignal = "error" =>
          parsePromise = "rejected" /\ thrown = ParseError /\ puts = <<>>

\* C12: parseMultipartFormData settles exactly once: under every order of the
\* decoder's "finish" and "error" the result is that of the one emitted first,
\* and the later one changes nothing but the fact that it was emitted; an
\* "error" then "finish" issues no store, a "finish" then "error" is no parse
\* failure.
C12_SettlesOnce ==
    [][/\ SettledByFirstSignal'
       /\ parsePromise # "pending" => parsePromise' = parsePromise /\ parsed' = parsed
       /\ (firstSignal # "none" /\ <<finishFired, errorFired>>' # <<finishFired, errorFired>>) =>
             UNCHANGED <<parsePromise, parsed, task, taskError, firstFailed, puts,
                         nextUuid, bucket, allPromise, statusCode, thrown, errLog>>]_vars

C12_Witness ==
    /\ firstSignal = "finish"
    /\ errorFired
    /\ ParseSucceeded
    /\ NumFiles = 2
    /\ Len(puts) = 2
    /\ thrown = NoError

\* What getFileExtension has to give for a file: the table's extension, or the
\* kind of error raised.
ExpectedExtension(f) ==
    IF ~f.hasHeaders THEN [ok |-> FALSE, ext |-> "", err |-> "MissingHeaders"]
    ELSE IF f.contentType \in DOMAIN TableExt
    THEN [ok |-> TRUE, ext |-> TableExt[f.contentType], err |-> ""]
    ELSE [ok |-> FALSE, ext |-> "", err |-> "UnsupportedContentType"]

C14_OutcomeOnlyWhenAllSettled ==
    (ParseSucceeded /\ NumFiles >= 1 /\ Finished) => NoneInFlight

\* C14, amended: the handler waits until every storeOne has succeeded or one
\* has failed: it has produced its outcome exactly when some storeOne has
\* failed or all have succeeded, so never while stores are in flight and none
\* has failed, and at once when one fails, also with others in flight.
C14_WaitsForAllOrFirstFailure ==
    (ParseSucceeded /\ NumFiles >= 1) =>
        (Finished <=> \/ \E i \in 1..NumFiles : task[i] = "rejected"
                      \/ \A i \in 1..NumFiles : task[i] = "fulfilled")

C14_Witness ==
    /\ ParseSucceeded
    /\ NumFiles = 3
    /\ Len(puts) = 3
    /\ \A p \in 1..3 : puts[p].status = "inflight"
    /\ ~Finished

\* C15: the stores of one invocation are concurrent: all of them are issued in
\* one turn, before any has completed; every store in flight can complete
\* next, with either result, whatever the state of the others; and an
\* invocation with files ends the same way under every order of completion.
C15_StoresConcurrent ==
    [][/\ Len(puts') # Len(puts) =>
             /\ puts = <<>>
             /\ \A p \in 1..Len(puts') : puts'[p].status = "inflight"
             /\ Len(puts') =
                  Cardinality({i \in 1..Len(parsed'.files) : WellFormed(parsed'.files[i])})
       /\ \A p \in 1..Len(puts) : puts[p].status = "inflight" =>
             /\ ENABLED BackendComplete(p, TRUE)
             /\ ENABLED BackendComplete(p, FALSE)
       /\ (ParseSucceeded' /\ Len(parsed'.files) >= 1 /\ Finished') =>
             thrown' # NoError /\ statusCode' = 0]_vars

C15_Witness ==
    /\ ParseSucceeded
    /\ NumFiles = 3
    /\ Len(puts) = 3
    /\ puts[1].status = "inflight"
    /\ puts[2].status = "inflight"
    /\ puts[3].status = "stored"
    /\ firstFailed = 3

\* The terminal outcomes of an invocation.
ParseFailed == firstSignal = "error" /\ thrown = ParseError /\ statusCode = 0
NoOpSuccess ==
    /\ ParseSucceeded /\ (parsed.null \/ NumFiles = 0)
    /\ statusCode = 200 /\ thrown = NoError
DispatchFinished ==
    /\ ParseSucceeded /\ NumFiles >= 1
    /\ \/ statusCode = 201 /\ thrown = NoError
       \/ statusCode = 0 /\ thrown \notin {NoError, ParseError}

\* C16: when the decoder eventually emits "finish" or "error" and every store
\* issued eventually settles, the invocation eventually reaches a terminal
\* outcome; the outcome is one of: parse failure, status 200 for no files,
\* dispatch finished with 201 or a failure; and an outcome once reached is
\* never replaced or joined by another.
C16_OneTerminalOutcome ==
    /\ <>Finished
    /\ [](Finished => ParseFailed \/ NoOpSuccess \/ DispatchFinished)
    /\ [][Finished => UNCHANGED <<statusCode, thrown>>]_vars

C16_Witness ==
    /\ DispatchFinished
    /\ NumFiles = 3
    /\ Len(puts) = 3
    /\ NoneInFlight
    /\ errorFired
    /\ thrown = BackendError(2)

\* C17: validation is per file: after a parse with at least one file, a key is
\* generated and a store issued for a file exactly when that file has headers
\* and a supported content type, whatever the other files are; a batch with a
\* malformed file has failed, yet the well-formed files before and after it
\* have their stores.
C17_StoreIffWellFormed ==
    (ParseSucceeded /\ NumFiles >= 1) =>
        /\ \A i \in 1..NumFiles :
              WellFormed(parsed.files[i]) <=> \E p \in 1..Len(puts) : puts[p].of = i
        /\ nextUuid = Len(puts)
        /\ {puts[p].key.uuid : p \in 1..Len(puts)} = 1..nextUuid
        /\ ~AllWellFormed => thrown # NoError /\ statusCode = 0

C17_Witness ==
    /\ ParseSucceeded
    /\ NumFiles = 3
    /\ ~parsed.files[2].hasHeaders
    /\ Len(puts) = 2
    /\ puts[1].of = 1
    /\ puts[2].of = 3
    /\ thrown = MissingHeaders(2)

====
